---- MODULE Spec2Model ----
(***************************************************************************)
(* Job orchestration core of Listen-Up: the orchestrator                   *)
(* (backend/modules/job/services/job_orchestrator_service.py), the job     *)
(* store (backend/modules/job/models/job_model.py), the two queue channels *)
(* (shared/modules/queue/redis_client.py) and the worker runtime           *)
(* (shared/modules/queue/command_executor_queue_service.py).               *)
(*                                                                         *)
(* One job document lives in the store.  Steps are identified by their     *)
(* position 1..n in the submitted list.  A request thread runs create_job  *)
(* and retry_job; the status-consumer thread runs handle_step_status_event;*)
(* the two interleave between the database writes of _dispatch_step.       *)
(***************************************************************************)
EXTENDS Integers, Sequences, FiniteSets, TLC

\* ---------------------------------------------------------------- bounds
MaxRetry == 2
MaxInject == 1

\* ---------------------------------------------------------------- enums
JobStatus == {"pending", "processing", "complete", "failed"}

JobStepStatus ==
  {"pending", "processing", "initializing", "running", "uploading",
   "complete", "failed"}

NoJob == [status |-> "none"]

\* Values of an event's / a step's outputs map, by what the map holds:
\*   "absent"   the event has no outputs field
\*   "null"     the field is null (None)
\*   "empty"    the empty map {}
\*   "declared" the output templates declared in the payload
\*   "resolved" the storage-relative paths reported by a worker
EventOutputs == {"absent", "null", "empty", "resolved"}

Services == {"x", "y"}

\* ------------------------------------------------------------- payloads
\* A step of a payload: its service ("" when empty) and whether its declared
\* inputs hold a {{steps.<name>.outputs.<key>}} reference: "none", "mapped"
\* (an inbound transition maps a source output onto that input name) or
\* "unmapped".
PStep(svc, ref) == [service |-> svc, ref |-> ref]

Tr(a, b) == [from_step_id |-> a, to_step_id |-> b]

Plain3 == << PStep("x", "none"), PStep("y", "none"), PStep("x", "none") >>

Payloads ==
  { [steps |-> Plain3, step_transitions |-> << Tr(1, 2), Tr(2, 3) >>],
    [steps |-> Plain3, step_transitions |-> << Tr(1, 3), Tr(2, 3) >>],
    [steps |-> Plain3, step_transitions |-> << Tr(2, 3) >>],
    [steps |-> Plain3, step_transitions |-> << Tr(1, 3) >>],
    [steps |-> << PStep("x", "none"), PStep("x", "mapped") >>,
     step_transitions |-> << Tr(1, 2) >>],
    [steps |-> << PStep("x", "none"), PStep("y", "unmapped"),
                  PStep("x", "none") >>,
     step_transitions |-> << Tr(1, 2), Tr(1, 3) >>],
    [steps |-> << PStep("x", "none"), PStep("", "none") >>,
     step_transitions |-> << Tr(1, 2) >>] }

\* Payloads whose step_transitions form a directed cycle: a two-step cycle,
\* a self-loop, and a cycle behind an initial step.
CyclicPayloads ==
  { [steps |-> << PStep("x", "none"), PStep("y", "none") >>,
     step_transitions |-> << Tr(1, 2), Tr(2, 1) >>],
    [steps |-> << PStep("x", "none"), PStep("y", "none") >>,
     step_transitions |-> << Tr(2, 2) >>],
    [steps |-> Plain3, step_transitions |-> << Tr(1, 2), Tr(2, 3), Tr(3, 2) >>] }

\* Payloads with an empty steps list and without the steps field.
EmptyPayloads ==
  { [steps |-> << >>, step_transitions |-> << >>],
    [step_transitions |-> << >>] }

\* Payloads with an initial step that cannot be sent: one without service, one
\* whose inputs reference a step through no transition.
UnsendablePayloads ==
  { [steps |-> << PStep("", "none"), PStep("x", "none") >>,
     step_transitions |-> << >>],
    [steps |-> << PStep("x", "none"), PStep("y", "unmapped") >>,
     step_transitions |-> << >>] }

\* Payloads whose steps are not listed in an order of the transition graph
\* (the first step is fed by a later one), and payloads with a transition
\* that names a step the payload does not have, as its source or its target.
EdgePayloads ==
  { [steps |-> << PStep("x", "none"), PStep("y", "none") >>,
     step_transitions |-> << Tr(2, 1) >>],
    [steps |-> << PStep("x", "none"), PStep("y", "none") >>,
     step_transitions |-> << Tr(3, 2) >>],
    [steps |-> << PStep("x", "none"), PStep("y", "none") >>,
     step_transitions |-> << Tr(1, 2), Tr(1, 3) >>] }

\* payload.get("steps", []) and payload.get("step_transitions", [])
PayloadSteps(p) == IF "steps" \in DOMAIN p THEN p.steps ELSE << >>

PayloadTransitions(p) ==
  IF "step_transitions" \in DOMAIN p THEN p.step_transitions ELSE << >>

VARIABLES
  job,        \* the job document of the store, or NoJob
  thread,     \* thread["req"]: request thread, thread["con"]: status consumer
  requests,   \* requests[svc]: the channel <svc>_requests
  statusQ,    \* the channel job_status_events
  worker,     \* worker[svc]: the worker process of service svc
  pushed,     \* pushed[op][s]: envelopes pushed for step s by operation op
  retries,    \* number of retry_job calls made
  injected,   \* number of status events that came from other producers
  lastEvent,  \* the status event handled last
  dup,        \* TRUE when lastEvent equals the event handled just before it
  response,   \* HTTP status of the last API request ("none": none, or running)
  proc,       \* the run of _process_step_message on the envelope a worker popped
  channel,    \* channel[name]: the Redis list of that name, as deployed
  call        \* the application of a pure function: its arguments and result

vars == << job, thread, requests, statusQ, worker, pushed, retries, injected,
           lastEvent, dup, response, proc, channel, call >>

\* The variables the orchestration actions leave alone.
aux == << proc, channel, call >>

\* The variables of the orchestration.
core == << job, thread, requests, statusQ, worker, pushed, retries, injected,
           lastEvent, dup, response >>

Threads == {"req", "con"}
Ops == {"create", "retry", "handle"}

\* Inputs of a step into which no output of a source step has been merged.
DeclaredInputs == [d \in {} |-> "null"]

\* A thread outside any operation.  While it dispatches, todo lists the steps
\* still to dispatch, snap is the job status the operation found and
\* inputs[s] the inputs of the in-memory step s.
Idle == [pc |-> "idle", op |-> "none", todo |-> << >>, snap |-> "none",
         inputs |-> << >>]

StepIds(j) == DOMAIN j.steps

\* ---------------------------------------------------------------- store
\* JobModel.update_job_status: last writer wins.
update_job_status(j, status) ==
  IF j = NoJob THEN j ELSE [j EXCEPT !.status = status]

\* The error_message argument of update_job_step_status: no caller in the
\* orchestrator passes one, so it has its default None.
ErrorMessageArg(status) == "null"

\* The clear_error argument of update_job_step_status: its default False.
ClearErrorArg == FALSE

\* update_job_step_status writing every step of the job instead of the
\* matched one.
update_job_step_status_EveryStep(j, step_id, status, outputs) ==
  IF j = NoJob \/ step_id \notin StepIds(j) THEN j
  ELSE [j EXCEPT !.steps =
          [s \in DOMAIN j.steps |->
             [j.steps[s] EXCEPT
                !.status = status,
                !.outputs = IF outputs = "null" THEN @ ELSE outputs]]]

\* JobModel.update_job_step_status: positional update of the step whose
\* step_id matches; the outputs are written only when not None, the
\* error_message when not None, or None on clear_error.
update_job_step_status(j, step_id, status, outputs) ==
  IF j = NoJob \/ step_id \notin StepIds(j) THEN j
  ELSE [j EXCEPT !.steps[step_id] =
          [@ EXCEPT !.status = status,
                    !.outputs = IF outputs = "null" THEN @ ELSE outputs,
                    !.error_message =
                       IF ErrorMessageArg(status) # "null"
                       THEN ErrorMessageArg(status)
                       ELSE IF ClearErrorArg THEN "null" ELSE @]]

\* ------------------------------------------------------- readiness logic
DependencyStepIds(j, s) ==
  { j.step_transitions[i].from_step_id :
      i \in { k \in DOMAIN j.step_transitions :
                j.step_transitions[k].to_step_id = s } }

_are_step_inputs_ready(j, s) ==
  \A d \in DependencyStepIds(j, s) :
     d \in StepIds(j) /\ j.steps[d].status = "complete"

IsReady(j, s) ==
  /\ j.steps[s].status \notin {"processing", "complete", "failed"}
  /\ _are_step_inputs_ready(j, s)

RECURSIVE SeqOfSet(_, _, _)
\* The members of set S among 1..n, in increasing order from position i.
SeqOfSet(S, i, n) ==
  IF i > n THEN << >>
  ELSE (IF i \in S THEN << i >> ELSE << >>) \o SeqOfSet(S, i + 1, n)

_get_ready_steps(j) ==
  SeqOfSet({ s \in StepIds(j) : IsReady(j, s) }, 1, Len(j.steps))

_is_job_complete(j) == \A s \in StepIds(j) : j.steps[s].status = "complete"

\* create_job's loop: the steps that are the target of no transition.
InitialSteps(j) ==
  SeqOfSet({ s \in StepIds(j) :
               \A i \in DOMAIN j.step_transitions :
                  j.step_transitions[i].to_step_id # s },
           1, Len(j.steps))

\* retry_job: the first step, in order, whose status is not complete (0: none).
ResumeStep(j) ==
  LET open == { s \in StepIds(j) : j.steps[s].status # "complete" }
  IN IF open = {} THEN 0
     ELSE CHOOSE s \in open : \A r \in open : s <= r

\* resolve_and_prepare raises on a cross-step reference left in the inputs:
\* _resolve_template_variables resolves against a job object without steps.
\* Only handle_step_status_event merges the transition-mapped inputs first.
ResolveRaises(j, s, op) ==
  \/ j.steps[s].ref = "unmapped"
  \/ j.steps[s].ref = "mapped" /\ op # "handle"

\* JobModel.get_step_outputs: the outputs recorded for a step.
get_step_outputs(j, step_id) == j.steps[step_id].outputs

\* _resolve_step_inputs: for each inbound transition, the outputs of its source
\* step, mapped onto the inputs of step s (every transition of the payloads
\* maps one output of its source onto one input of its target).  The result
\* tells, per source step, which outputs value was merged into the inputs.
_resolve_step_inputs(j, s) ==
  [d \in DependencyStepIds(j, s) \cap StepIds(j) |-> get_step_outputs(j, d)]

\* The event types BackendQueueService.handle_event passes on.
StatusEventTypes ==
  {"JOB_STEP_COMPLETE", "JOB_STEP_FAILED", "JOB_STEP_PROCESSING"}

\* _send_status_update: the event type that goes with a status.
EventTypeOf(status) ==
  CASE status = "complete" -> "JOB_STEP_COMPLETE"
    [] status = "failed" -> "JOB_STEP_FAILED"
    [] OTHER -> "JOB_STEP_PROCESSING"

\* A status event as it travels on job_status_events.  A missing field has
\* the value "absent" (step_id: 0); the one job of the store has id "job".
StatusEvent(s, status, outputs) ==
  [event_type |-> EventTypeOf(status), job_id |-> "job", step_id |-> s,
   status |-> status, outputs |-> outputs,
   error_message |-> IF status = "failed" THEN "msg" ELSE "null"]

\* JobStepStatusEvent(**event).dict(): a missing outputs field takes the
\* default of the model, the empty map; null stays null.
ParsedOutputs(e) == IF e.outputs = "absent" THEN "empty" ELSE e.outputs

\* Accepted without the conversion of the status to the JobStepStatus enum.
Accepted_AnyStatus(e) ==
  /\ e.event_type \in StatusEventTypes
  /\ e.job_id # "absent" /\ e.step_id # 0 /\ e.status # "absent"

\* The event passes handle_event (event type, JobStepStatusEvent parsing) and
\* the field and enum checks at the head of handle_step_status_event.
Accepted(e) ==
  /\ e.event_type \in StatusEventTypes
  /\ e.job_id # "absent" /\ e.step_id # 0 /\ e.status # "absent"
  /\ e.status \in JobStepStatus

NoEvent == StatusEvent(0, "none", "null")

\* ----------------------------------------------------------------- Init
\* No envelope popped by the worker under observation.
NoProc == [pc |-> "none"]

\* No function applied.
NoCall == [fn |-> "none"]

\* The channel of the envelopes of a service: the orchestrator's
\* f"{microservice_name}_requests".
_get_service_queue(svc) == << svc, "requests" >>

\* The channel a worker application listens on: f"{SERVICE_NAME}_queue".
QUEUE_NAME(svc) == << svc, "queue" >>

\* The Redis lists that carry envelopes.
Channels ==
  { _get_service_queue(svc) : svc \in Services } \cup
  { QUEUE_NAME(svc) : svc \in Services }

Init ==
  /\ job = NoJob
  /\ thread = [t \in Threads |-> Idle]
  /\ requests = [svc \in Services |-> << >>]
  /\ statusQ = << >>
  /\ worker = [svc \in Services |-> [pc |-> "idle", step_id |-> 0]]
  /\ pushed = [op \in Ops |-> [s \in 1..3 |-> 0]]
  /\ retries = 0
  /\ injected = 0
  /\ lastEvent = NoEvent
  /\ dup = FALSE
  /\ response = "none"
  /\ proc = NoProc
  /\ channel = [c \in Channels |-> << >>]
  /\ call = NoCall

\* ----------------------------------------------------------- dispatching
\* End of the operation thread t is running.
Finish(t) == thread' = [thread EXCEPT ![t] = Idle]

\* The response when the operation of thread t ends: the controller answers
\* 400 to a ValueError, else 201 to a creation and 200 to a retry.  An
\* exception on the consumer thread is caught by handle_event.
Returned(t, raised) ==
  IF t # "req" THEN response
  ELSE IF raised THEN "400"
  ELSE IF thread[t].op = "create" THEN "201" ELSE "200"

\* DispatchWrite without the write of status processing.
DispatchWrite_NoStatusWrite(t) ==
  /\ thread[t].pc = "dispatch"
  /\ LET s == Head(thread[t].todo)
         rest == Tail(thread[t].todo)
     IN IF job.steps[s].service = ""
        THEN /\ IF rest = << >>
                THEN Finish(t) /\ response' = Returned(t, FALSE)
                ELSE /\ thread' = [thread EXCEPT ![t].todo = rest]
                     /\ UNCHANGED response
             /\ UNCHANGED job
        ELSE /\ UNCHANGED job
             /\ thread' = [thread EXCEPT ![t].pc = "push"]
             /\ UNCHANGED response
  /\ UNCHANGED << aux, requests, statusQ, worker, pushed, retries, injected,
                  lastEvent, dup >>

\* _dispatch_step, first half: the early return for a step without service,
\* else the write of status processing.
DispatchWrite(t) ==
  /\ thread[t].pc = "dispatch"
  /\ LET s == Head(thread[t].todo)
         rest == Tail(thread[t].todo)
     IN IF job.steps[s].service = ""
        THEN /\ IF rest = << >>
                THEN Finish(t) /\ response' = Returned(t, FALSE)
                ELSE /\ thread' = [thread EXCEPT ![t].todo = rest]
                     /\ UNCHANGED response
             /\ UNCHANGED job
        ELSE /\ job' = update_job_step_status(job, s, "processing", "null")
             /\ thread' = [thread EXCEPT ![t].pc = "push"]
             /\ UNCHANGED response
  /\ UNCHANGED << aux, requests, statusQ, worker, pushed, retries, injected,
                  lastEvent, dup >>

\* _dispatch_step, second half: resolve the event and push it; an exception
\* of resolve_and_prepare leaves the operation (the rest of its loop is lost).
DispatchPush(t) ==
  /\ thread[t].pc = "push"
  /\ LET s == Head(thread[t].todo)
         rest == Tail(thread[t].todo)
         op == thread[t].op
         svc == job.steps[s].service
     IN IF ResolveRaises(job, s, op)
        THEN /\ Finish(t)
             /\ response' = Returned(t, TRUE)
             /\ UNCHANGED << requests, pushed >>
        ELSE /\ requests' = [requests EXCEPT
                               ![svc] = Append(@, [step_id |-> s,
                                                   inputs |->
                                                     thread[t].inputs[s]])]
             /\ pushed' = [pushed EXCEPT ![op][s] = @ + 1]
             /\ IF rest = << >>
                THEN Finish(t) /\ response' = Returned(t, FALSE)
                ELSE /\ thread' = [thread EXCEPT ![t].pc = "dispatch",
                                                   ![t].todo = rest]
                     /\ UNCHANGED response
  /\ UNCHANGED << aux, job, statusQ, worker, retries, injected, lastEvent, dup >>

\* ------------------------------------------------------------ create_job
\* ValidRequest without the controller's check of the steps field.
ValidRequest_NoStepsCheck(p) == TRUE

\* The controller's request validation: steps present and not empty.
ValidRequest(p) == PayloadSteps(p) # << >>

\* BuildStepTransitions without the test of the step names.
BuildStepTransitions_Unfiltered(p) == PayloadTransitions(p)

\* create_job, the loop over the payload's transitions: one StepTransition
\* for each transition whose two step names are names of steps of the payload.
BuildStepTransitions(p) ==
  SelectSeq(PayloadTransitions(p),
            LAMBDA t : /\ t.from_step_id \in DOMAIN PayloadSteps(p)
                       /\ t.to_step_id \in DOMAIN PayloadSteps(p))

\* The job document built from a payload.
NewJob(p) ==
  [status |-> "pending",
   steps |-> [s \in DOMAIN PayloadSteps(p) |->
                [status |-> "pending", outputs |-> "declared",
                 service |-> PayloadSteps(p)[s].service,
                 ref |-> PayloadSteps(p)[s].ref,
                 error_message |-> "null"]],
   step_transitions |-> BuildStepTransitions(p)]

\* POST /jobs: the controller rejects a request without steps, else the
\* orchestrator persists the job and starts its initial-dispatch loop.
create_job(p) ==
  /\ job = NoJob
  /\ thread["req"].pc = "idle"
  /\ IF ~ValidRequest(p)
     THEN /\ response' = "400"
          /\ UNCHANGED << job, thread >>
     ELSE LET j == NewJob(p)
          IN /\ job' = j
             /\ thread' = [thread EXCEPT !["req"] =
                             IF InitialSteps(j) = << >> THEN Idle
                             ELSE [pc |-> "dispatch", op |-> "create",
                                   todo |-> InitialSteps(j), snap |-> "none",
                                   inputs |-> [s \in StepIds(j) |->
                                                 DeclaredInputs]]]
             /\ response' = IF InitialSteps(j) = << >> THEN "201" ELSE "none"
  /\ UNCHANGED << aux, requests, statusQ, worker, pushed, retries, injected,
                  lastEvent, dup >>

\* ------------------------------------------------------------- retry_job
retry_job ==
  /\ thread["req"].pc = "idle"
  /\ retries < MaxRetry
  /\ retries' = retries + 1
  /\ IF job = NoJob \/ ResumeStep(job) = 0
     THEN /\ response' = "400"
          /\ UNCHANGED << job, thread >>
     ELSE /\ response' = "none"
          /\ job' = update_job_status(job, "processing")
          /\ thread' = [thread EXCEPT !["req"] =
                          [pc |-> "dispatch", op |-> "retry",
                           todo |-> << ResumeStep(job) >>,
                           snap |-> job.status,
                           inputs |-> [s \in StepIds(job) |->
                                         DeclaredInputs]]]
  /\ UNCHANGED << aux, requests, statusQ, worker, pushed, injected, lastEvent, dup >>

\* ---------------------------------------------- handle_step_status_event
\* AfterStatusEvent with the failed branch of the handler left out.
AfterStatusEvent_FailedIgnored(j, e) ==
  LET upd == update_job_step_status(j, e.step_id, e.status, ParsedOutputs(e))
  IN IF e.status = "complete"
        /\ SeqOfSet({ s \in StepIds(upd) : IsReady(upd, s) },
                    1, Len(upd.steps)) = << >>
        /\ \A s \in StepIds(upd) : upd.steps[s].status = "complete"
     THEN update_job_status(upd, "complete") ELSE upd

\* The store after the handler's writes for event e, dispatching excluded.
AfterStatusEvent(j, e) ==
  LET upd == update_job_step_status(j, e.step_id, e.status, ParsedOutputs(e))
  IN CASE e.status = "complete" ->
            IF _get_ready_steps(upd) = << >> /\ _is_job_complete(upd)
            THEN update_job_status(upd, "complete") ELSE upd
       [] e.status = "failed" -> update_job_status(upd, "failed")
       [] OTHER -> upd

\* handle_event and the handler applied to event e: drop e when it is not
\* accepted or the job is not found, else update the step, re-read the job and
\* branch on the status; the ready steps are left to the dispatch loop.
HandleEvent(e) ==
  /\ thread["con"].pc = "idle"
  /\ LET upd == update_job_step_status(job, e.step_id, e.status,
                                       ParsedOutputs(e))
     IN IF ~Accepted(e) \/ job = NoJob
        THEN UNCHANGED << job, thread >>
        ELSE /\ job' = AfterStatusEvent(job, e)
             /\ thread' = [thread EXCEPT !["con"] =
                  IF e.status = "complete" /\ _get_ready_steps(upd) # << >>
                  THEN [pc |-> "dispatch", op |-> "handle",
                        todo |-> _get_ready_steps(upd), snap |-> upd.status,
                        inputs |-> [s \in StepIds(upd) |->
                                      _resolve_step_inputs(upd, s)]]
                  ELSE Idle]
  /\ lastEvent' = e
  /\ dup' = (e = lastEvent)
  /\ UNCHANGED << aux, requests, worker, pushed, retries, response >>

\* BackendQueueService.run: pop the next event of job_status_events.
handle_step_status_event ==
  /\ statusQ # << >>
  /\ HandleEvent(Head(statusQ))
  /\ statusQ' = Tail(statusQ)
  /\ UNCHANGED injected

\* ---------------------------------------------------------------- worker
\* _process_step_message up to the processing status.
WorkerStart(svc) ==
  /\ worker[svc].pc = "idle"
  /\ requests[svc] # << >>
  /\ requests' = [requests EXCEPT ![svc] = Tail(@)]
  /\ worker' = [worker EXCEPT ![svc] =
                  [pc |-> "running", step_id |-> Head(requests[svc]).step_id]]
  /\ statusQ' = Append(statusQ,
                       StatusEvent(Head(requests[svc]).step_id,
                                   "processing", "null"))
  /\ UNCHANGED << aux, job, thread, pushed, retries, injected, lastEvent, dup,
                  response >>

\* _process_step_message from the command on: complete with the output paths,
\* or failed (any exception) without outputs.
WorkerFinish(svc, ok) ==
  /\ worker[svc].pc = "running"
  /\ worker' = [worker EXCEPT ![svc] = [pc |-> "idle", step_id |-> 0]]
  /\ statusQ' = Append(statusQ,
                       IF ok THEN StatusEvent(worker[svc].step_id,
                                              "complete", "resolved")
                       ELSE StatusEvent(worker[svc].step_id, "failed", "null"))
  /\ UNCHANGED << aux, job, thread, requests, pushed, retries, injected,
                  lastEvent, dup, response >>

\* ------------------------------------------------- other event producers
\* A status event that reaches the handler from any other producer of
\* job_status_events (a redelivery, a late or foreign event): any step, any
\* value of the status enum.  It is handled as soon as it is popped, ahead of
\* the events the workers push later.
InjectableEvents ==
  { StatusEvent(s, st, IF st = "complete" THEN "resolved" ELSE "null") :
      s \in 1..3, st \in JobStepStatus }

InjectStatusEvent(e) ==
  /\ injected < MaxInject
  /\ job # NoJob
  /\ e.step_id \in StepIds(job)
  /\ injected' = injected + 1
  /\ HandleEvent(e)
  /\ UNCHANGED statusQ

\* Events of other producers that lack a field or carry an unknown status or
\* event type, next to well-formed ones.
MalformedEvents ==
  LET e == StatusEvent(1, "complete", "resolved")
  IN { [e EXCEPT !.job_id = "absent"], [e EXCEPT !.step_id = 0],
       [e EXCEPT !.status = "absent"], [e EXCEPT !.status = "bogus"],
       [e EXCEPT !.event_type = "JOB_COMPLETE"],
       [e EXCEPT !.event_type = "absent"] }

RawEvents ==
  MalformedEvents \cup
    { StatusEvent(s, st, IF st = "complete" THEN "resolved" ELSE "null") :
        s \in 1..2, st \in {"processing", "complete", "failed"} } \cup
    { StatusEvent(s, st, "absent") : s \in 1..2, st \in {"processing", "failed"} }

\* Any event pushed on job_status_events by another producer and popped by
\* the consumer ahead of the events the workers push later.
InjectRawEvent(e) ==
  /\ injected < MaxInject
  /\ job # NoJob
  /\ injected' = injected + 1
  /\ HandleEvent(e)
  /\ UNCHANGED statusQ

\* ------------------------------------------------------- specifications
Orchestrator ==
  \/ \E p \in Payloads : create_job(p)
  \/ \E t \in Threads : DispatchWrite(t)
  \/ \E t \in Threads : DispatchPush(t)
  \/ handle_step_status_event

Workers ==
  \/ \E svc \in Services : WorkerStart(svc)
  \/ \E svc \in Services, ok \in BOOLEAN : WorkerFinish(svc, ok)

Next ==
  \/ Orchestrator
  \/ Workers
  \/ retry_job

Spec == Init /\ [][Next]_vars

NextEv ==
  \/ Orchestrator
  \/ Workers
  \/ \E e \in InjectableEvents : InjectStatusEvent(e)

SpecEv == Init /\ [][NextEv]_vars

\* The job runs on its own: no retry request and no foreign status event.
NextRun ==
  \/ Orchestrator
  \/ Workers

SpecRun == Init /\ [][NextRun]_vars

NextRaw ==
  \/ Orchestrator
  \/ Workers
  \/ \E e \in RawEvents : InjectRawEvent(e)

SpecRaw == Init /\ [][NextRaw]_vars

\* Any request body is submitted: well-formed, cyclic, without steps, or with
\* a step that cannot be sent.
Submissions ==
  Payloads \cup CyclicPayloads \cup EmptyPayloads \cup UnsendablePayloads

NextSubmit ==
  \/ \E p \in Submissions : create_job(p)
  \/ \E t \in Threads : DispatchWrite(t)
  \/ \E t \in Threads : DispatchPush(t)
  \/ handle_step_status_event
  \/ Workers

SpecSubmit == Init /\ [][NextSubmit]_vars

\* Every envelope is executed by a worker that reports complete; no retry.
WorkersOk ==
  \/ \E svc \in Services : WorkerStart(svc)
  \/ \E svc \in Services : WorkerFinish(svc, TRUE)

NextOk ==
  \/ Orchestrator
  \/ WorkersOk

SpecOk == Init /\ [][NextOk]_vars

\* A well-formed status event that names the job and a step_id no step of
\* the job has is popped from job_status_events and handled.
InjectUnknownStepEvent(e) ==
  /\ injected < MaxInject
  /\ job # NoJob
  /\ e.step_id \notin StepIds(job)
  /\ injected' = injected + 1
  /\ HandleEvent(e)
  /\ UNCHANGED statusQ

\* Jobs submitted with steps listed against the transitions or with a
\* transition that names an absent step, with retry_job and with status
\* events that name an unknown step; the workers report complete.
NextEdge ==
  \/ \E p \in EdgePayloads : create_job(p)
  \/ \E t \in Threads : DispatchWrite(t)
  \/ \E t \in Threads : DispatchPush(t)
  \/ handle_step_status_event
  \/ WorkersOk
  \/ retry_job
  \/ \E st \in {"processing", "complete", "failed"} :
        InjectUnknownStepEvent(
          StatusEvent(4, st, IF st = "complete" THEN "resolved" ELSE "null"))

SpecEdge == Init /\ [][NextEdge]_vars

\* ------------------------------------------------ _process_step_message
\* The names of the inputs and of the declared outputs of an envelope.
InputNames == {"in1", "in2"}
OutputNames == {"o1", "o2"}

\* The envelopes a worker can pop: JSON that builds a JobStepEvent ("ok") or
\* not ("invalid": a required field is missing), with the inputs and declared
\* outputs of the step.
Envelopes ==
  [parse : {"ok", "invalid"}, step_id : {1},
   inputs : SUBSET InputNames, outputs : SUBSET OutputNames]

\* What subprocess.run does: return code 0, another return code, or
\* TimeoutExpired after 300 s.
Results == {"exit0", "exit1", "timeout"}

\* The worker has popped envelope e.
Popped(e) ==
  [pc |-> "popped", parse |-> e.parse, step_id |-> e.step_id,
   inputs |-> e.inputs, outputs |-> e.outputs, missing |-> {},
   started |-> FALSE, result |-> "none", present |-> {}, created |-> {}]

\* _send_status_update: the event pushed onto job_status_events.
_send_status_update(status, outputs) ==
  statusQ' = Append(statusQ, StatusEvent(proc.step_id, status, outputs))

\* _process_step_message up to the processing status: an envelope that does
\* not build a JobStepEvent raises with step_event still None, and the except
\* branch sends nothing.
ProcParse ==
  /\ proc.pc = "popped"
  /\ IF proc.parse = "ok"
     THEN /\ _send_status_update("processing", "null")
          /\ proc' = [proc EXCEPT !.pc = "inputs"]
     ELSE /\ proc' = [proc EXCEPT !.pc = "done"]
          /\ UNCHANGED statusQ
  /\ UNCHANGED << job, thread, requests, worker, pushed, retries, injected,
                  lastEvent, dup, response, channel, call >>

\* _download_and_map_inputs: FileNotFoundError at an input that is not in the
\* shared storage; the except branch sends failed.
ProcInputs ==
  /\ proc.pc = "inputs"
  /\ \E missing \in SUBSET proc.inputs :
       IF missing # {}
       THEN /\ proc' = [proc EXCEPT !.pc = "done", !.missing = missing]
            /\ _send_status_update("failed", "null")
       ELSE /\ proc' = [proc EXCEPT !.pc = "execute"]
            /\ UNCHANGED statusQ
  /\ UNCHANGED << job, thread, requests, worker, pushed, retries, injected,
                  lastEvent, dup, response, channel, call >>

\* _execute_command: the subprocess runs and leaves some of the declared
\* output files (present), some of them not empty (created); RuntimeError on
\* a return code other than 0, TimeoutExpired on the timeout.
ProcExecute ==
  /\ proc.pc = "execute"
  /\ \E r \in Results, present \in SUBSET proc.outputs :
       \E created \in SUBSET present :
         IF r # "exit0"
         THEN /\ proc' = [proc EXCEPT !.pc = "done", !.started = TRUE,
                                      !.result = r, !.present = present,
                                      !.created = created]
              /\ _send_status_update("failed", "null")
         ELSE /\ proc' = [proc EXCEPT !.pc = "validate", !.started = TRUE,
                                      !.result = r, !.present = present,
                                      !.created = created]
              /\ UNCHANGED statusQ
  /\ UNCHANGED << job, thread, requests, worker, pushed, retries, injected,
                  lastEvent, dup, response, channel, call >>

\* _validate_output_files without the early return for an empty mapping.
_validate_output_files_NoEarlyReturn(output_mapping, created) ==
  created # {}

\* _validate_output_files: passes when no output is declared, else when at
\* least one declared output exists with a size above 0.
_validate_output_files(output_mapping, created) ==
  output_mapping = {} \/ created # {}

\* _upload_output_files: the declared outputs that exist.
_upload_output_files(output_mapping, present) == output_mapping \cap present

\* _process_step_message from the validation on: RuntimeError when the
\* validation fails, else the complete status with the outputs found.
ProcValidate ==
  /\ proc.pc = "validate"
  /\ proc' = [proc EXCEPT !.pc = "done"]
  /\ IF _validate_output_files(proc.outputs, proc.created)
     THEN _send_status_update(
            "complete",
            IF _upload_output_files(proc.outputs, proc.present) = {}
            THEN "empty" ELSE "resolved")
     ELSE _send_status_update("failed", "null")
  /\ UNCHANGED << job, thread, requests, worker, pushed, retries, injected,
                  lastEvent, dup, response, channel, call >>

\* A worker that has popped any envelope.
InitProc ==
  /\ job = NoJob
  /\ thread = [t \in Threads |-> Idle]
  /\ requests = [svc \in Services |-> << >>]
  /\ statusQ = << >>
  /\ worker = [svc \in Services |-> [pc |-> "idle", step_id |-> 0]]
  /\ pushed = [op \in Ops |-> [s \in 1..3 |-> 0]]
  /\ retries = 0
  /\ injected = 0
  /\ lastEvent = NoEvent
  /\ dup = FALSE
  /\ response = "none"
  /\ proc \in { Popped(e) : e \in Envelopes }
  /\ channel = [c \in Channels |-> << >>]
  /\ call = NoCall

NextProc ==
  \/ ProcParse
  \/ ProcInputs
  \/ ProcExecute
  \/ ProcValidate

SpecProc == InitProc /\ [][NextProc]_vars

\* ---------------------------------------------------- deployed channels
\* _dispatch_step of the orchestrator, its push alone: the envelope of step s
\* of service svc goes onto the channel _get_service_queue(svc).
PushEnvelope(svc, s) ==
  /\ pushed["create"][s] = 0
  /\ pushed' = [pushed EXCEPT !["create"][s] = 1]
  /\ channel' = [channel EXCEPT ![_get_service_queue(svc)] =
                   Append(@, [step_id |-> s, inputs |-> DeclaredInputs])]
  /\ UNCHANGED << job, thread, requests, statusQ, worker, retries, injected,
                  lastEvent, dup, response, proc, call >>

\* The older orchestrator (backend/modules/job/job_orchestrator_service.py)
\* pushes the envelope onto f"{service_name}_queue".
LegacyPushEnvelope(svc, s) ==
  /\ pushed["create"][s] = 0
  /\ pushed' = [pushed EXCEPT !["create"][s] = 1]
  /\ channel' = [channel EXCEPT ![<< svc, "queue" >>] =
                   Append(@, [step_id |-> s, inputs |-> DeclaredInputs])]
  /\ UNCHANGED << job, thread, requests, statusQ, worker, retries, injected,
                  lastEvent, dup, response, proc, call >>

\* process_messages of the worker application of service svc: the blocking
\* pop from the channel QUEUE_NAME(svc).
process_messages(svc) ==
  /\ channel[QUEUE_NAME(svc)] # << >>
  /\ channel' = [channel EXCEPT ![QUEUE_NAME(svc)] = Tail(@)]
  /\ UNCHANGED << job, thread, requests, statusQ, worker, pushed, retries,
                  injected, lastEvent, dup, response, proc, call >>

NextDeploy ==
  \/ \E svc \in Services, s \in 1..3 : PushEnvelope(svc, s)
  \/ \E svc \in Services, s \in 1..3 : LegacyPushEnvelope(svc, s)
  \/ \E svc \in Services : process_messages(svc)

\* The worker loop of every service keeps running.
SpecDeploy ==
  /\ Init
  /\ [][NextDeploy]_vars
  /\ \A svc \in Services : WF_vars(process_messages(svc))

\* -------------------------------------------------- PathTemplateResolver
\* A string is a sequence of atoms: a character or an unbroken piece of text.
\* "{{" and "}}" are atoms, and so is the text between them, so that a token
\* such as {{job_id}} is three atoms long and can also arise where a string
\* ending in "{{" meets one starting with "job_id".
Tok(name) == << "{{", name, "}}" >>

\* str.startswith
StartsWith(s, prefix) ==
  Len(s) >= Len(prefix) /\ SubSeq(s, 1, Len(prefix)) = prefix

\* str.replace(old, new): every occurrence of old, found from the left and
\* not overlapping, becomes new; the text put in is not searched again.
RECURSIVE Replace(_, _, _)
Replace(s, old, new) ==
  IF Len(s) < Len(old) THEN s
  ELSE IF StartsWith(s, old)
       THEN new \o Replace(SubSeq(s, Len(old) + 1, Len(s)), old, new)
       ELSE << Head(s) >> \o Replace(Tail(s), old, new)

\* The texts steps.<step>.outputs.<key> that occur between braces, with the
\* two groups of the pattern; the step group of the last one has a blank,
\* which [a-zA-Z0-9_-]+ does not match.
RefAtoms ==
  {"steps.s1.outputs.out", "steps.A.outputs.out", "steps.Z.outputs.out",
   "steps.s1.outputs.nope", "steps.s 1.outputs.out"}

RefStep(a) ==
  CASE a = "steps.A.outputs.out" -> "A"
    [] a = "steps.Z.outputs.out" -> "Z"
    [] OTHER -> "s1"

RefKey(a) == IF a = "steps.s1.outputs.nope" THEN "nope" ELSE "out"

\* The pattern {{steps\.([a-zA-Z0-9_-]+)\.outputs\.([a-zA-Z0-9_-]+)}} matches
\* at the head of s.
MatchesRef(s) ==
  /\ Len(s) >= 3
  /\ s[1] = "{{"
  /\ s[2] \in RefAtoms \ {"steps.s 1.outputs.out"}
  /\ s[3] = "}}"

\* The result of a call that raised ValueError.
Raised == << "ValueError" >>

\* replacer: the step of the job whose step_id equals the first group.
Target(j, step_name) ==
  { i \in DOMAIN j.steps : j.steps[i].step_id = step_name }

\* replacer: ValueError for an unknown step or output key, else the output.
Replacer(j, a) ==
  LET target == Target(j, RefStep(a))
  IN IF target = {} THEN Raised
     ELSE LET t == j.steps[CHOOSE i \in target : \A k \in target : i <= k]
          IN IF RefKey(a) \notin DOMAIN t.outputs THEN Raised
             ELSE t.outputs[RefKey(a)]

\* _resolve_step_references: re.sub over the template, from the left; the
\* text put in is not searched again, and an exception of replacer ends it.
RECURSIVE _resolve_step_references(_, _)
_resolve_step_references(template, j) ==
  IF template = << >> THEN << >>
  ELSE IF MatchesRef(template)
       THEN LET v == Replacer(j, template[2])
                rest == _resolve_step_references(
                          SubSeq(template, 4, Len(template)), j)
            IN IF v = Raised \/ rest = Raised THEN Raised ELSE v \o rest
       ELSE LET rest == _resolve_step_references(Tail(template), j)
            IN IF rest = Raised THEN Raised
               ELSE << Head(template) >> \o rest

\* PathTemplateResolver.resolve: the replacements one after the other, each
\* over the result of the one before; user_id only when it is not empty, the
\* step fields only when a step is given.
resolve(template, j, step) ==
  LET v1 == Replace(template, Tok("job_id"), j.job_id)
      v2 == IF j.user_id # << >>
            THEN Replace(v1, Tok("user_id"), j.user_id) ELSE v1
      v3 == IF step.given
            THEN Replace(Replace(v2, Tok("step_id"), step.step_id),
                         Tok("composite_name"), step.composite_name)
            ELSE v2
  IN _resolve_step_references(v3, j)

\* The templates considered: up to MaxItems pieces, each a text, a token or
\* a part of a token.
MaxItems == 2

Items ==
  { << "a" >>, << "{{" >>, << "job_id", "}}" >>,
    Tok("job_id"), Tok("user_id"), Tok("step_id"), Tok("composite_name") }
  \cup { Tok(a) : a \in RefAtoms }

RECURSIVE Flatten(_)
Flatten(ss) == IF ss = << >> THEN << >> ELSE Head(ss) \o Flatten(Tail(ss))

Templates ==
  UNION { { Flatten(f) : f \in [1..n -> Items] } : n \in 0..MaxItems }

\* A step of job.steps: its step_id, its name and its outputs.
StepOf(step_id, name, out) ==
  [step_id |-> step_id, name |-> name, outputs |-> [out |-> out]]

\* The jobs considered: the usual one, one without user_id, one whose job_id
\* holds a token, one with a token in an output value, one whose step has its
\* name as step_id.
Jobs ==
  { [job_id |-> << "J" >>, user_id |-> << "u" >>,
     steps |-> << StepOf("s1", "A", << "p" >>) >>],
    [job_id |-> << "J" >>, user_id |-> << >>,
     steps |-> << StepOf("s1", "A", << "p" >>) >>],
    [job_id |-> Tok("user_id"), user_id |-> << "u" >>,
     steps |-> << StepOf("s1", "A", << "p" >>) >>],
    [job_id |-> << "J" >>, user_id |-> << "u" >>,
     steps |-> << StepOf("s1", "A", Tok("job_id")) >>],
    [job_id |-> << "J" >>, user_id |-> << "u" >>,
     steps |-> << StepOf("Z", "Z", << "p" >>) >>] }

\* The step argument of resolve: a step, a step whose composite name holds a
\* reference, or None.
StepArgs ==
  { [given |-> TRUE, step_id |-> << "s1" >>, composite_name |-> << "c" >>],
    [given |-> TRUE, step_id |-> << "s1" >>,
     composite_name |-> Tok("steps.s1.outputs.out")],
    [given |-> FALSE, step_id |-> << >>, composite_name |-> << >>] }

\* resolve is about to be applied to any template in any context.
InitResolve ==
  /\ job = NoJob
  /\ thread = [t \in Threads |-> Idle]
  /\ requests = [svc \in Services |-> << >>]
  /\ statusQ = << >>
  /\ worker = [svc \in Services |-> [pc |-> "idle", step_id |-> 0]]
  /\ pushed = [op \in Ops |-> [s \in 1..3 |-> 0]]
  /\ retries = 0
  /\ injected = 0
  /\ lastEvent = NoEvent
  /\ dup = FALSE
  /\ response = "none"
  /\ proc = NoProc
  /\ channel = [c \in Channels |-> << >>]
  /\ call \in [fn : {"resolve"}, template : Templates, job : Jobs,
               step : StepArgs, n : {0}, out : {<< >>}, again : {<< >>}]

\* resolve(template, job=job, step=step)
ApplyResolve ==
  /\ call.fn = "resolve"
  /\ call.n = 0
  /\ call' = [call EXCEPT !.n = 1,
                          !.out = resolve(call.template, call.job, call.step)]
  /\ UNCHANGED << core, proc, channel >>

\* resolve applied to the result of resolve, in the same context.
ApplyResolveAgain ==
  /\ call.fn = "resolve"
  /\ call.n = 1
  /\ call.out # Raised
  /\ call' = [call EXCEPT !.n = 2,
                          !.again = resolve(call.out, call.job, call.step)]
  /\ UNCHANGED << core, proc, channel >>

NextResolve ==
  \/ ApplyResolve
  \/ ApplyResolveAgain

SpecResolve == InitResolve /\ [][NextResolve]_vars

\* ------------------------------------------------- the path of an output
\* STORAGE_ROOT, and os.path.join(a, b) for an a that does not end in "/".
STORAGE_ROOT == << "/", "s" >>

Join(a, b) == IF StartsWith(b, << "/" >>) THEN b ELSE a \o << "/" >> \o b

\* JobStepEvent._resolve_template_variables: resolve against a job object
\* without steps and a step object whose composite name falls back to the
\* step_id, then the storage root in front of a relative path with a "/".
_resolve_template_variables(value, e, user_id) ==
  LET job_obj == [job_id |-> e.job_id, user_id |-> user_id, steps |-> << >>]
      step_obj == [given |-> TRUE, step_id |-> e.step_id,
                   composite_name |->
                     IF e.composite_name # << >> THEN e.composite_name
                     ELSE e.step_id]
      resolved_value == resolve(value, job_obj, step_obj)
  IN IF resolved_value = Raised THEN Raised
     ELSE IF (\E i \in DOMAIN resolved_value : resolved_value[i] = "/")
              /\ ~StartsWith(resolved_value, << "/" >>)
          THEN Join(STORAGE_ROOT, resolved_value)
          ELSE resolved_value

\* _create_output_mapping: the absolute path of a declared output.
_create_output_mapping(relative_path) ==
  IF StartsWith(relative_path, STORAGE_ROOT) THEN relative_path
  ELSE Join(STORAGE_ROOT, relative_path)

\* _upload_output_files: absolute_path.replace(STORAGE_ROOT + "/", "")
RelativePath(absolute_path) ==
  Replace(absolute_path, STORAGE_ROOT \o << "/" >>, << >>)

\* The output templates considered: up to MaxItems pieces.
OutputItems ==
  { << "a" >>, << "d", "/" >>, << "/" >>, STORAGE_ROOT \o << "/" >>,
    Tok("job_id"), Tok("user_id"), Tok("step_id"), Tok("composite_name"),
    Tok("foo"), Tok("steps.s1.outputs.out") }

OutputTemplates ==
  UNION { { Flatten(f) : f \in [1..n -> OutputItems] } : n \in 1..MaxItems }

\* The events considered: with and without a composite name.
StepEvents ==
  { [job_id |-> << "J" >>, step_id |-> << "s1" >>, composite_name |-> c] :
      c \in { << >>, << "c" >> } }

\* A step with one declared output is about to be dispatched, in a job with
\* or without user_id.
InitOutputs ==
  /\ job = NoJob
  /\ thread = [t \in Threads |-> Idle]
  /\ requests = [svc \in Services |-> << >>]
  /\ statusQ = << >>
  /\ worker = [svc \in Services |-> [pc |-> "idle", step_id |-> 0]]
  /\ pushed = [op \in Ops |-> [s \in 1..3 |-> 0]]
  /\ retries = 0
  /\ injected = 0
  /\ lastEvent = NoEvent
  /\ dup = FALSE
  /\ response = "none"
  /\ proc = NoProc
  /\ channel = [c \in Channels |-> << >>]
  /\ call \in [fn : {"outputs"}, template : OutputTemplates,
               event : StepEvents, user_id : { << >>, << "u" >> },
               n : {0}, path : {<< >>}, stored : {<< >>}]

\* _dispatch_step: resolve_and_prepare resolves the declared output; the
\* envelope is pushed unless it raises.
ResolveOutputs ==
  /\ call.fn = "outputs"
  /\ call.n = 0
  /\ call' = [call EXCEPT !.n = 1,
                !.path = _resolve_template_variables(call.template,
                                                     call.event,
                                                     call.user_id)]
  /\ UNCHANGED << core, proc, channel >>

\* The worker maps the output of the envelope to its absolute path.
MapOutputs ==
  /\ call.fn = "outputs"
  /\ call.n = 1
  /\ call.path # Raised
  /\ call' = [call EXCEPT !.n = 2, !.path = _create_output_mapping(call.path)]
  /\ UNCHANGED << core, proc, channel >>

\* The command has written the file: the worker reports its relative path
\* with the complete status.
UploadOutputs ==
  /\ call.fn = "outputs"
  /\ call.n = 2
  /\ call' = [call EXCEPT !.n = 3, !.path = RelativePath(call.path)]
  /\ UNCHANGED << core, proc, channel >>

\* handle_step_status_event stores the outputs of the complete event.
StoreOutputs ==
  /\ call.fn = "outputs"
  /\ call.n = 3
  /\ call' = [call EXCEPT !.n = 4, !.stored = call.path]
  /\ UNCHANGED << core, proc, channel >>

NextOutputs ==
  \/ ResolveOutputs
  \/ MapOutputs
  \/ UploadOutputs
  \/ StoreOutputs

SpecOutputs == InitOutputs /\ [][NextOutputs]_vars

\* ------------------------------------------------------ CommandResolver
\* A flag value is a string or a number (Union[str, int, float, bool]).
Str(s) == [type |-> "str", s |-> s]
Num(s) == [type |-> "int", s |-> s]

\* str.strip(chars): the atoms of chars taken off both ends.
RECURSIVE LStrip(_, _)
LStrip(s, chars) ==
  IF s # << >> /\ Head(s) \in chars THEN LStrip(Tail(s), chars) ELSE s

RECURSIVE RStrip(_, _)
RStrip(s, chars) ==
  IF s # << >> /\ s[Len(s)] \in chars
  THEN RStrip(SubSeq(s, 1, Len(s) - 1), chars) ELSE s

Strip(s, chars) == RStrip(LStrip(s, chars), chars)

\* dict.get(key) in a chain of "or": None and the empty string are both false.
Get(d, key) == IF key \in DOMAIN d THEN d[key] ELSE << >>

\* _replace_placeholders: a string between "{{" and "}}" is looked up by what
\* is left when braces and then blanks are stripped from its ends; the first
\* value that is not empty among inputs.get(key), outputs.get(key), value.
_replace_placeholders(value, inputs, outputs) ==
  IF value.type # "str" THEN value
  ELSE IF StartsWith(value.s, << "{{" >>) /\ value.s[Len(value.s)] = "}}"
       THEN LET key == Strip(Strip(value.s, {"{{", "}}"}), {" "})
            IN IF Get(inputs, key) # << >> THEN Str(Get(inputs, key))
               ELSE IF Get(outputs, key) # << >> THEN Str(Get(outputs, key))
               ELSE value
       ELSE value

\* CommandResolver.resolve: a new CommandSpec with the flags and args
\* replaced and the other fields kept.
CommandResolver_resolve(spec, inputs, outputs) ==
  [program |-> spec.program,
   flags |-> [f \in DOMAIN spec.flags |->
                _replace_placeholders(spec.flags[f], inputs, outputs)],
   args |-> [i \in DOMAIN spec.args |->
               _replace_placeholders(Str(spec.args[i]), inputs, outputs).s],
   shell |-> spec.shell, cwd |-> spec.cwd, env |-> spec.env]

\* The flag values and args considered: a placeholder, one padded with
\* blanks, one in more braces, an unknown one, two in a row, one after a
\* text, a text, and for a flag a number.
ArgValues ==
  { Tok("in"), << "{{", " ", "in", " ", "}}" >>, << "{{" >> \o Tok("in"),
    Tok("out"), Tok("zz"), Tok("in") \o Tok("out"), << "a" >> \o Tok("in"),
    << "a" >> }

FlagValues == { Str(s) : s \in ArgValues } \cup { Num(<< "1" >>) }

\* The maps considered: every key with a path, with the empty string, or
\* missing.
Maps(keys, path) ==
  UNION { [ks -> { << >>, path }] : ks \in SUBSET keys }

CommandSpecs ==
  { [program |-> << "p" >>, flags |-> [i |-> v], args |-> << a >>,
     shell |-> FALSE, cwd |-> "None", env |-> "None"] :
      v \in FlagValues, a \in ArgValues }

\* CommandResolver.resolve is about to be applied.
InitCommand ==
  /\ job = NoJob
  /\ thread = [t \in Threads |-> Idle]
  /\ requests = [svc \in Services |-> << >>]
  /\ statusQ = << >>
  /\ worker = [svc \in Services |-> [pc |-> "idle", step_id |-> 0]]
  /\ pushed = [op \in Ops |-> [s \in 1..3 |-> 0]]
  /\ retries = 0
  /\ injected = 0
  /\ lastEvent = NoEvent
  /\ dup = FALSE
  /\ response = "none"
  /\ proc = NoProc
  /\ channel = [c \in Channels |-> << >>]
  /\ call \in [fn : {"command"}, spec : CommandSpecs,
               inputs : Maps({<< "in" >>}, << "/", "i" >>),
               outputs : Maps({<< "in" >>, << "out" >>}, << "/", "o" >>),
               n : {0}, out : {"None"}]

ApplyCommandResolver ==
  /\ call.fn = "command"
  /\ call.n = 0
  /\ call' = [call EXCEPT !.n = 1,
                !.out = CommandResolver_resolve(call.spec, call.inputs,
                                                call.outputs)]
  /\ UNCHANGED << core, proc, channel >>

NextCommand == ApplyCommandResolver

SpecCommand == InitCommand /\ [][NextCommand]_vars

\* ------------------------------------------------ JobStep.get_composite_name
\* The decimal digits of n, n >= 0.
RECURSIVE Digits(_)
Digits(n) ==
  LET d == << "0", "1", "2", "3", "4", "5", "6", "7", "8", "9" >>[(n % 10) + 1]
  IN IF n < 10 THEN << d >> ELSE Digits(n \div 10) \o << d >>

\* f"{order:03d}": zeros in front up to three digits.
RECURSIVE ZeroPad(_, _)
ZeroPad(s, width) == IF Len(s) >= width THEN s ELSE ZeroPad(<< "0" >> \o s, width)

\* The flag keys in the order of sort_keys=True.
KeyOrder == << "a", "b" >>

\* json.dumps(params or {}, sort_keys=True, separators=(',', ':'))
RECURSIVE DumpSorted(_, _)
DumpSorted(flags, k) ==
  IF k > Len(KeyOrder) THEN << >>
  ELSE LET at == { i \in DOMAIN flags : flags[i].key = KeyOrder[k] }
       IN (IF at = {} THEN << >>
           ELSE << KeyOrder[k], ":", flags[CHOOSE i \in at : TRUE].value, "," >>)
          \o DumpSorted(flags, k + 1)

\* params_hash(...)[:8]: the digest stands for the text it is taken of, so
\* that two flag maps have the same hash exactly when their sorted JSON text
\* is the same.
params_hash(flags) == << "{" >> \o DumpSorted(flags, 1) \o << "}" >>

\* get_composite_name: <order>_<service>_<program>_<param_hash>, with "000"
\* for no order and "unknown" for no service and for no program.
get_composite_name(step) ==
  LET order_str == IF step.order # << >>
                   THEN ZeroPad(Digits(step.order[1]), 3)
                   ELSE << "0", "0", "0" >>
      service_name == IF step.microservice # << >> THEN step.microservice
                      ELSE << "unknown" >>
      program_name == IF step.program # << >> THEN step.program
                      ELSE << "unknown" >>
  IN order_str \o << "_" >> \o service_name \o << "_" >> \o program_name
       \o << "_" >> \o params_hash(step.flags)

\* A flag of command_spec.flags; the flags of a step are kept in the order in
\* which they were given.
Flag(k, v) == [key |-> k, value |-> v]

FlagMaps ==
  { << >>, << Flag("a", "1"), Flag("b", "2") >>,
    << Flag("b", "2"), Flag("a", "1") >>, << Flag("a", "2") >> }

\* The steps considered: order None (the empty sequence), 0, 1 or 12;
\* service and program None, a name, or a name with an underscore.
NamedSteps ==
  [step_id : {"s1", "s2"},
   order : { << >>, << 0 >>, << 1 >>, << 12 >> },
   microservice : { << >>, << "x" >>, << "x", "_", "p" >> },
   program : { << >>, << "q" >>, << "p", "_", "q" >> },
   flags : FlagMaps]

\* get_composite_name is about to be applied to two steps.
InitName ==
  /\ job = NoJob
  /\ thread = [t \in Threads |-> Idle]
  /\ requests = [svc \in Services |-> << >>]
  /\ statusQ = << >>
  /\ worker = [svc \in Services |-> [pc |-> "idle", step_id |-> 0]]
  /\ pushed = [op \in Ops |-> [s \in 1..3 |-> 0]]
  /\ retries = 0
  /\ injected = 0
  /\ lastEvent = NoEvent
  /\ dup = FALSE
  /\ response = "none"
  /\ proc = NoProc
  /\ channel = [c \in Channels |-> << >>]
  /\ call \in [fn : {"name"},
               a : { s \in NamedSteps : s.step_id = "s1" },
               b : { s \in NamedSteps : s.step_id = "s2" },
               n : {0}, name_a : {<< >>}, name_b : {<< >>}]

ApplyCompositeName ==
  /\ call.fn = "name"
  /\ call.n = 0
  /\ call' = [call EXCEPT !.n = 1,
                          !.name_a = get_composite_name(call.a),
                          !.name_b = get_composite_name(call.b)]
  /\ UNCHANGED << core, proc, channel >>

NextName == ApplyCompositeName

SpecName == InitName /\ [][NextName]_vars

\* ------------------------------------------- the status-consumer threads
\* The threads of backend/app.py that run start_queue_listener: the one
\* started when the module is imported and the one started under __main__.
Starters == {"import", "main"}

\* The module just loaded: _queue_listener_started = False, no thread
\* started, up to two status events waiting on job_status_events.
InitListener ==
  /\ job = NoJob
  /\ thread = [t \in Threads |-> Idle]
  /\ requests = [svc \in Services |-> << >>]
  /\ LET events == { StatusEvent(s, st, "null") :
                       s \in 1..2, st \in {"complete", "failed"} }
     IN statusQ \in {<< >>} \cup { << e >> : e \in events }
                            \cup { << e, f >> : e, f \in events }
  /\ worker = [svc \in Services |-> [pc |-> "idle", step_id |-> 0]]
  /\ pushed = [op \in Ops |-> [s \in 1..3 |-> 0]]
  /\ retries = 0
  /\ injected = 0
  /\ lastEvent = NoEvent
  /\ dup = FALSE
  /\ response = "none"
  /\ proc = NoProc
  /\ channel = [c \in Channels |-> << >>]
  /\ call = [fn |-> "listener",
             _queue_listener_started |-> FALSE,
             pc |-> [t \in Starters |-> "unstarted"],
             event |-> [t \in Starters |-> NoEvent]]

\* threading.Thread(target=start_queue_listener).start(): at import, and
\* once more after it when the module runs as __main__.
StartThread(t) ==
  /\ call.fn = "listener"
  /\ call.pc[t] = "unstarted"
  /\ t = "main" => call.pc["import"] # "unstarted"
  /\ call' = [call EXCEPT !.pc[t] = "check"]
  /\ UNCHANGED << core, proc, channel >>

\* start_queue_listener, the test of the flag: return when it is set.
CheckStarted(t) ==
  /\ call.fn = "listener"
  /\ call.pc[t] = "check"
  /\ call' = [call EXCEPT !.pc[t] = IF call._queue_listener_started
                                    THEN "skipped" ELSE "set"]
  /\ UNCHANGED << core, proc, channel >>

\* start_queue_listener, after the print: _queue_listener_started = True.
SetStarted(t) ==
  /\ call.fn = "listener"
  /\ call.pc[t] = "set"
  /\ call' = [call EXCEPT !._queue_listener_started = TRUE,
                          !.pc[t] = "create"]
  /\ UNCHANGED << core, proc, channel >>

\* BackendQueueService(mongo.db) and the entry into service.run(); an
\* exception of the constructor resets the flag.
CreateService(t, ok) ==
  /\ call.fn = "listener"
  /\ call.pc[t] = "create"
  /\ call' = IF ok
             THEN [call EXCEPT !.pc[t] = "listen"]
             ELSE [call EXCEPT !._queue_listener_started = FALSE,
                               !.pc[t] = "failed"]
  /\ UNCHANGED << core, proc, channel >>

\* QueueService.run, the pop of the next event.
ListenForEvent(t) ==
  /\ call.fn = "listener"
  /\ call.pc[t] = "listen"
  /\ statusQ # << >>
  /\ statusQ' = Tail(statusQ)
  /\ call' = [call EXCEPT !.pc[t] = "handle", !.event[t] = Head(statusQ)]
  /\ UNCHANGED << job, thread, requests, worker, pushed, retries, injected,
                  lastEvent, dup, response, proc, channel >>

\* QueueService.run, handle_event(event) returning to the loop.
LoopHandleEvent(t) ==
  /\ call.fn = "listener"
  /\ call.pc[t] = "handle"
  /\ lastEvent' = call.event[t]
  /\ call' = [call EXCEPT !.pc[t] = "listen", !.event[t] = NoEvent]
  /\ UNCHANGED << job, thread, requests, statusQ, worker, pushed, retries,
                  injected, dup, response, proc, channel >>

NextListener ==
  \/ \E t \in Starters : StartThread(t)
  \/ \E t \in Starters : CheckStarted(t)
  \/ \E t \in Starters : SetStarted(t)
  \/ \E t \in Starters : \E ok \in BOOLEAN : CreateService(t, ok)
  \/ \E t \in Starters : ListenForEvent(t)
  \/ \E t \in Starters : LoopHandleEvent(t)

SpecListener == InitListener /\ [][NextListener]_vars

\* ------------------------------------ the inputs of a dispatched envelope
\* dict.update: the entries of b over those of a.
DictUpdate(a, b) ==
  [k \in DOMAIN a \cup DOMAIN b |-> IF k \in DOMAIN b THEN b[k] ELSE a[k]]

\* StepTransition.apply_mapping on a mapping from output name to input name:
\* each mapped output the source has, under the input name it maps to.
apply_mapping(mapping, source_outputs) ==
  LET mapped == DOMAIN mapping \cap DOMAIN source_outputs
  IN [i \in { mapping[o] : o \in mapped } |->
        source_outputs[CHOOSE o \in mapped : mapping[o] = i]]

\* _resolve_step_inputs, the loop over the first k transitions: the mapped
\* outputs of each inbound transition of step s, a later one over an earlier.
RECURSIVE aggregated_inputs(_, _, _)
aggregated_inputs(j, s, k) ==
  IF k = 0 THEN << >>
  ELSE LET transition == j.step_transitions[k]
           before == aggregated_inputs(j, s, k - 1)
       IN IF transition.to_step_id = s
          THEN DictUpdate(before,
                 apply_mapping(transition.output_to_input_mapping,
                               get_step_outputs(j, transition.from_step_id)))
          ELSE before

\* step.inputs.update with the operands exchanged: a declared input keeps its
\* value.
StepInputsUpdate_DeclaredWins(j, s) ==
  DictUpdate(aggregated_inputs(j, s, Len(j.step_transitions)),
             j.steps[s].inputs)

\* _resolve_step_inputs, step.inputs.update(aggregated_inputs).
StepInputsUpdate(j, s) ==
  DictUpdate(j.steps[s].inputs,
             aggregated_inputs(j, s, Len(j.step_transitions)))

\* _dispatch_step, previous_outputs: the outputs of the source steps of the
\* first k transitions, by output name.
RECURSIVE previous_outputs(_, _, _)
previous_outputs(j, s, k) ==
  IF k = 0 THEN << >>
  ELSE LET transition == j.step_transitions[k]
           before == previous_outputs(j, s, k - 1)
       IN IF transition.to_step_id = s
          THEN DictUpdate(before,
                          get_step_outputs(j, transition.from_step_id))
          ELSE before

\* str.strip("{}") of a text that starts with "{{" and ends with "}}".
RECURSIVE StripBraces(_)
StripBraces(v) ==
  IF v = << >> THEN v
  ELSE IF Head(v) \in {"{{", "}}"} THEN StripBraces(Tail(v))
  ELSE IF v[Len(v)] \in {"{{", "}}"}
       THEN StripBraces(SubSeq(v, 1, Len(v) - 1))
  ELSE v

\* JobStepEvent._resolve_inputs for one value: the template variables, then a
\* value that is one placeholder is replaced by the previous output of that
\* name, or kept as declared when there is none.
ResolveInputValue(value, previous, e, user_id) ==
  LET v == _resolve_template_variables(value, e, user_id)
  IN IF v = Raised THEN Raised
     ELSE IF v # << >> /\ Head(v) = "{{" /\ v[Len(v)] = "}}"
          THEN LET placeholder == StripBraces(v)
               IN IF Len(placeholder) = 1 /\ placeholder[1] \in DOMAIN previous
                  THEN previous[placeholder[1]]
                  ELSE value
          ELSE v

\* JobStepEvent._resolve_inputs: every input resolved; an exception of the
\* resolver ends the call.
_resolve_inputs(inputs, previous, e, user_id) ==
  IF \E k \in DOMAIN inputs :
       ResolveInputValue(inputs[k], previous, e, user_id) = Raised
  THEN [raised |-> TRUE, inputs |-> << >>]
  ELSE [raised |-> FALSE,
        inputs |-> [k \in DOMAIN inputs |->
                      ResolveInputValue(inputs[k], previous, e, user_id)]]

\* The names of the inputs of the target step.
MapInputNames == {"in", "aux"}

\* The event built for step 3 and the user of the job.
MapEvent ==
  [job_id |-> << "J" >>, step_id |-> << "s3" >>, composite_name |-> << "c" >>]

\* Step 3 has become ready: both source steps are complete.  Each source
\* has recorded a name or a relative path as its output "out"; step 3
\* declares, for any of its inputs, a name, a placeholder of a previous
\* output or a template variable; one or two inbound transitions of step 3
\* map the output "out" of their source onto one of its inputs.
InitInputs ==
  /\ job = NoJob
  /\ thread = [t \in Threads |-> Idle]
  /\ requests = [svc \in Services |-> << >>]
  /\ statusQ = << >>
  /\ worker = [svc \in Services |-> [pc |-> "idle", step_id |-> 0]]
  /\ pushed = [op \in Ops |-> [s \in 1..3 |-> 0]]
  /\ retries = 0
  /\ injected = 0
  /\ lastEvent = NoEvent
  /\ dup = FALSE
  /\ response = "none"
  /\ proc = NoProc
  /\ channel = [c \in Channels |-> << >>]
  /\ LET source == { << "a" >>, << "b" >>, << "d", "/", "a" >> }
         declared == UNION { [names -> { << "c" >>, Tok("out"),
                                         Tok("job_id") }] :
                               names \in SUBSET MapInputNames }
         inbound == { [from_step_id |-> f, to_step_id |-> 3,
                       output_to_input_mapping |-> ("out" :> i)] :
                        f \in 1..2, i \in MapInputNames }
     IN call \in
          [fn : {"inputs"}, n : {0}, inputs : {<< >>},
           envelope : {[raised |-> FALSE, inputs |-> << >>]},
           job : { [steps |->
                      << [inputs |-> << >>, outputs |-> ("out" :> o1)],
                         [inputs |-> << >>, outputs |-> ("out" :> o2)],
                         [inputs |-> d, outputs |-> << >>] >>,
                    step_transitions |-> ts] :
                     o1 \in source, o2 \in source, d \in declared,
                     ts \in { << t >> : t \in inbound } \cup
                            { << t, u >> : t, u \in inbound } }]

\* handle_step_status_event for the ready step: _resolve_step_inputs in
\* _get_ready_steps, then _dispatch_step builds the event with
\* inputs=step.inputs and resolves it against the previous outputs.
DispatchReadyStep ==
  /\ call.fn = "inputs"
  /\ call.n = 0
  /\ LET inputs == StepInputsUpdate(call.job, 3)
     IN call' = [call EXCEPT
                   !.n = 1,
                   !.inputs = inputs,
                   !.envelope =
                      _resolve_inputs(inputs,
                        previous_outputs(call.job, 3,
                                         Len(call.job.step_transitions)),
                        MapEvent, << "u" >>)]
  /\ UNCHANGED << core, proc, channel >>

NextInputs == DispatchReadyStep

SpecInputs == InitInputs /\ [][NextInputs]_vars

TypeOK ==
  /\ job.status \in JobStatus \cup {"none"}
  /\ \A t \in Threads : thread[t].pc \in {"idle", "dispatch", "push"}
  /\ job # NoJob =>
       \A s \in StepIds(job) : job.steps[s].status \in JobStepStatus

\* ------------------------------------------------------------ properties
\* A step of the transition is the handling of a status event.
HandledNow == Len(statusQ') < Len(statusQ) \/ injected' > injected

\* Nothing is left to run: no operation in progress, no envelope, no event.
Quiescent ==
  /\ job # NoJob
  /\ \A t \in Threads : thread[t].pc = "idle"
  /\ \A svc \in Services : requests[svc] = << >> /\ worker[svc].pc = "idle"
  /\ statusQ = << >>

Pushes(s) == pushed["create"][s] + pushed["handle"][s] + pushed["retry"][s]

\* C1: while the handler handles a complete status event that equals the
\* event it handled just before, it pushes no envelope.
C1_SecondHandlingPushesNothing ==
  [][(dup /\ lastEvent.status = "complete")
       => pushed'["handle"] = pushed["handle"]]_vars

\* C2: create_job and handle_step_status_event push an envelope for a step
\* only while every source step of its inbound transitions is persisted as
\* complete.
C2_PushOnlyWhenSourcesComplete ==
  [][\A op \in {"create", "handle"} : \A s \in 1..3 :
        pushed'[op][s] > pushed[op][s] => _are_step_inputs_ready(job, s)]_vars

\* C3: whatever the interleaving of the request thread and the status
\* consumer, a step receives at most one envelope from create_job and
\* handle_step_status_event together (retries push one more each).
C3_OneEnvelopePerActivation ==
  \A s \in 1..3 : pushed["create"][s] + pushed["handle"][s] <= 1

\* C4: a job persisted as complete has every step persisted as complete.
C4_CompleteJobHasCompleteSteps ==
  job.status = "complete" => _is_job_complete(job)

\* C5: when every envelope has been executed by a worker that reported
\* complete and every status event has been handled, every step has been
\* dispatched and the job is persisted as complete.
C5_QuiescentJobIsComplete ==
  Quiescent =>
    /\ job.status = "complete"
    /\ \A s \in StepIds(job) : Pushes(s) >= 1

\* C6: handling a failed status event of an existing job sets the job to
\* failed, schedules no dispatch and pushes no envelope.
C6_FailedEventFailsJob ==
  [][(HandledNow /\ lastEvent'.status = "failed" /\ job # NoJob)
       => /\ job'.status = "failed"
          /\ thread'["con"] = Idle
          /\ requests' = requests
          /\ pushed' = pushed]_vars

C6_Witness ==
  /\ lastEvent.status = "failed"
  /\ job.status = "failed"
  /\ thread["con"].pc = "idle"

\* C7: the handling of a complete status event that found the job persisted
\* as failed pushes no envelope.
C7_NoDispatchOnceFailed ==
  [][thread["con"].snap = "failed"
       => pushed'["handle"] = pushed["handle"]]_vars

\* C8: status events never change a job status that is complete or failed.
C8_TerminalJobStatusSticky ==
  [][(job.status \in {"complete", "failed"} /\ retries' = retries)
       => job'.status = job.status]_vars

\* C9: without retry, a job status changes only pending -> processing,
\* processing -> complete or processing -> failed.
C9_JobStatusTransitions ==
  [][(job # NoJob /\ retries' = retries /\ job'.status # job.status)
       => << job.status, job'.status >> \in
            { << "pending", "processing" >>, << "processing", "complete" >>,
              << "processing", "failed" >> }]_vars

\* C10: a step status goes from complete or failed to pending only in a
\* retry_job call; handle_step_status_event never resets a step to pending.
C10_OnlyRetryResetsStep ==
  [][job # NoJob =>
       \A s \in StepIds(job) :
          (job.steps[s].status \in {"complete", "failed"}
             /\ job'.steps[s].status = "pending") => retries' > retries]_vars

\* C11: the handling of a status event never takes a step that is persisted
\* as complete to another status.
C11_CompleteStepStaysComplete ==
  [][(HandledNow /\ job # NoJob) =>
       \A s \in StepIds(job) :
          job.steps[s].status = "complete"
            => job'.steps[s].status = "complete"]_vars

\* C12: a retry_job call on an unknown job, on a job persisted as complete or
\* on a job persisted as processing changes no step status, no job status and
\* no queue, and starts no dispatch.
C12_RetryRefusedLeavesAllUnchanged ==
  [][(retries' > retries
        /\ (job = NoJob \/ job.status \in {"complete", "processing"}))
       => /\ job' = job
          /\ thread' = thread
          /\ requests' = requests
          /\ statusQ' = statusQ]_vars

\* C13: a retry_job call that finds the job failed sets the job to processing
\* and dispatches the first step, in order, that is not complete; the call
\* changes no other step and ends having pushed exactly one envelope, for
\* that step.
C13_RetryDispatchesResumeStepOnce ==
  [][/\ (retries' > retries /\ job # NoJob /\ job.status = "failed"
            /\ ResumeStep(job) # 0)
          => /\ job'.status = "processing"
             /\ thread'["req"].todo = << ResumeStep(job) >>
             /\ job'.steps = job.steps
     /\ (thread["req"].op = "retry" /\ thread["req"].snap = "failed"
            /\ thread'["req"] # thread["req"])
          => LET r == Head(thread["req"].todo)
             IN /\ \A s \in StepIds(job) \ {r} : job'.steps[s] = job.steps[s]
                /\ thread'["req"].pc = "idle"
                     => pushed'["retry"][r] = pushed["retry"][r] + 1]_vars

\* C14: the envelope retry_job pushes for a step carries the inputs a dispatch
\* of that step by handle_step_status_event would carry: the recorded outputs
\* of the source step of every inbound transition, merged into the inputs.
C14_RetryEnvelopeCarriesMergedInputs ==
  [][\A s \in 1..3 :
       pushed'["retry"][s] > pushed["retry"][s]
         => LET q == requests'[job.steps[s].service]
            IN q[Len(q)].inputs = _resolve_step_inputs(job, s)]_vars

\* The transitions trs hold a directed cycle through at most three steps.
Edge(trs, a, b) ==
  \E i \in DOMAIN trs : trs[i].from_step_id = a /\ trs[i].to_step_id = b

HasCycle(trs) ==
  \E a \in 1..3 :
     \/ Edge(trs, a, a)
     \/ \E b \in 1..3 : Edge(trs, a, b) /\ Edge(trs, b, a)
     \/ \E b, c \in 1..3 : Edge(trs, a, b) /\ Edge(trs, b, c) /\ Edge(trs, c, a)

\* C15: no job whose step_transitions form a directed cycle is ever persisted:
\* create_job rejects such a payload.
C15_NoCyclicJobPersisted ==
  job # NoJob => ~HasCycle(job.step_transitions)

C17_InitialDispatchSet ==
  [][(response # "201" /\ response' = "201")
       => \A s \in StepIds(job') :
             pushed'["create"][s] =
               IF \A i \in DOMAIN job'.step_transitions :
                     job'.step_transitions[i].to_step_id # s
               THEN 1 ELSE 0]_vars

\* C18: once every status event has been handled and nothing is left to run,
\* a job that is not failed has no step with inbound transitions that is
\* still pending while all its source steps are complete.
C18_NoMissedWakeUp ==
  (Quiescent /\ job.status # "failed")
    => \A s \in StepIds(job) :
          ~ /\ DependencyStepIds(job, s) # {}
            /\ job.steps[s].status = "pending"
            /\ _are_step_inputs_ready(job, s)

\* An event that lacks job_id, step_id or status, or carries an unrecognised
\* status value or event type.
Malformed(e) ==
  \/ e.job_id = "absent" \/ e.step_id = 0 \/ e.status = "absent"
  \/ e.status \notin {"pending", "processing", "initializing", "running",
                       "uploading", "complete", "failed"}
  \/ e.event_type \notin {"JOB_STEP_COMPLETE", "JOB_STEP_FAILED",
                           "JOB_STEP_PROCESSING"}

\* C19: receiving a malformed status event changes neither the store nor any
\* queue, starts no dispatch and leaves the consumer ready for the next
\* event.
C19_MalformedEventDropped ==
  [][(HandledNow /\ Malformed(lastEvent'))
       => /\ job' = job
          /\ requests' = requests
          /\ pushed' = pushed
          /\ thread' = thread
          /\ thread'["con"].pc = "idle"
          /\ (statusQ' = statusQ \/ statusQ' = Tail(statusQ))]_vars

C19_Witness ==
  /\ job # NoJob
  /\ injected > 0
  /\ lastEvent \in MalformedEvents

\* C20: handling a processing or failed status event whose outputs field is
\* absent or null leaves the outputs recorded for the step unchanged, and the
\* processing and failed events of a worker carry no outputs map.
C20_OutputsKeptWithoutOutputsField ==
  [][/\ (HandledNow /\ job # NoJob
           /\ lastEvent'.status \in {"processing", "failed"}
           /\ lastEvent'.outputs \in {"absent", "null"}
           /\ lastEvent'.step_id \in StepIds(job))
          => job'.steps[lastEvent'.step_id].outputs
               = job.steps[lastEvent'.step_id].outputs
     /\ \A i \in DOMAIN statusQ' :
          statusQ'[i].status \in {"processing", "failed"}
            => statusQ'[i].outputs = "null"]_vars

\* The status of the event the worker pushed last.
LastStatus == statusQ[Len(statusQ)].status

\* C21: when the worker is done with an envelope it popped, it has pushed for
\* the step of the envelope a processing status and then exactly one terminal
\* status (complete or failed), and nothing else, whether the envelope parsed
\* or not.
C21_ProcessingThenOneTerminal ==
  proc.pc = "done" =>
    /\ Len(statusQ) = 2
    /\ statusQ[1].status = "processing"
    /\ statusQ[2].status \in {"complete", "failed"}
    /\ \A i \in 1..2 : statusQ[i].step_id = proc.step_id

\* The envelope parsed and the worker is done with it.
ProcDone == proc.pc = "done" /\ proc.parse = "ok"

ThreadsIdle == \A t \in Threads : thread[t].pc = "idle"

\* C23: once the dispatch of a step whose inputs reference a step that cannot
\* be resolved is over, the store holds status failed for the step and for the
\* job; the step is not left processing without an envelope.
C23_ReferenceErrorFailsStep ==
  (job # NoJob /\ ThreadsIdle) =>
    \A s \in StepIds(job) :
      (job.steps[s].ref = "unmapped" /\ job.steps[s].status # "pending")
        => /\ job.steps[s].status = "failed"
           /\ job.status = "failed"

\* Envelope of step s is on channel c.
OnChannel(c, s) == \E i \in DOMAIN channel[c] : channel[c][i].step_id = s

\* C24: every envelope the orchestrator's _dispatch_step pushes for a service
\* is eventually popped, the worker loop of every service running fairly.
C24_PushedEnvelopeIsPopped ==
  \A svc \in Services, s \in 1..3 :
    OnChannel(_get_service_queue(svc), s)
      ~> ~OnChannel(_get_service_queue(svc), s)

\* C25: a step's persisted error_message is not null exactly when its
\* persisted status is failed.
C25_ErrorMessageIffFailed ==
  job # NoJob =>
    \A s \in StepIds(job) :
      (job.steps[s].error_message # "null") <=> (job.steps[s].status = "failed")

\* The expansion of the tokens that stand in the template itself, in one
\* pass from the left: the text put in is never searched.
RECURSIVE SinglePass(_, _, _)
SinglePass(t, j, st) ==
  IF t = << >> THEN << >>
  ELSE LET after == SinglePass(SubSeq(t, 4, Len(t)), j, st)
           put(v) == IF v = Raised \/ after = Raised THEN Raised
                     ELSE v \o after
       IN IF StartsWith(t, Tok("job_id")) THEN put(j.job_id)
          ELSE IF StartsWith(t, Tok("user_id")) /\ j.user_id # << >>
          THEN put(j.user_id)
          ELSE IF StartsWith(t, Tok("step_id")) /\ st.given
          THEN put(st.step_id)
          ELSE IF StartsWith(t, Tok("composite_name")) /\ st.given
          THEN put(st.composite_name)
          ELSE IF MatchesRef(t) THEN put(Replacer(j, t[2]))
          ELSE LET rest == SinglePass(Tail(t), j, st)
               IN IF rest = Raised THEN Raised ELSE << Head(t) >> \o rest

\* C27: resolve applied to its own result gives that result again, and the
\* result of resolve is the single-pass expansion of the template: a token
\* inside a substituted value is left as it is.
C27_ResolveIdempotentSinglePass ==
  (call.fn = "resolve" /\ call.n = 2) =>
    /\ call.again = call.out
    /\ call.out = SinglePass(call.template, call.job, call.step)

\* The value the claim gives to the reference a: the output of the step of
\* the job that is named as the reference says, else an error.
ByName(j, a) ==
  LET named == { i \in DOMAIN j.steps : j.steps[i].name = RefStep(a) }
  IN IF named = {} THEN Raised
     ELSE LET t == j.steps[CHOOSE i \in named : TRUE]
          IN IF RefKey(a) \notin DOMAIN t.outputs THEN Raised
             ELSE t.outputs[RefKey(a)]

\* C28: for a template that is a reference {{steps.X.outputs.K}}, alone or
\* after a text, resolve returns the output K of the step named X, and raises
\* when no step is named X or that step has no output K.
C28_ReferenceByStepName ==
  (call.fn = "resolve" /\ call.n >= 1) =>
    \A pre \in { << >>, << "a" >> } :
      (StartsWith(call.template, pre) /\ Len(call.template) = Len(pre) + 3
         /\ MatchesRef(SubSeq(call.template, Len(pre) + 1, Len(pre) + 3)))
        => LET v == ByName(call.job, call.template[Len(pre) + 2])
           IN call.out = IF v = Raised THEN Raised ELSE pre \o v

\* The string s holds a {{...}} token.
HasToken(s) ==
  \E i \in DOMAIN s : i + 2 <= Len(s) /\ s[i] = "{{" /\ s[i + 2] = "}}"

\* C26: the output value stored for a complete step is a path relative to the
\* storage root and holds no {{...}} token, whatever the declared template and
\* with or without a user_id.
C26_StoredOutputsResolved ==
  (call.fn = "outputs" /\ call.n = 4) =>
    /\ ~HasToken(call.stored)
    /\ ~StartsWith(call.stored, << "/" >>)

\* What the claim gives for the string s: for s of the form {{NAME}} the
\* value of NAME in inputs when NAME is a key of inputs, else the value in
\* outputs when NAME is a key of outputs, else s; every other s unchanged.
ByKey(s, inputs, outputs) ==
  IF Len(s) >= 2 /\ s[1] = "{{" /\ s[Len(s)] = "}}"
  THEN LET NAME == SubSeq(s, 2, Len(s) - 1)
       IN IF NAME \in DOMAIN inputs THEN inputs[NAME]
          ELSE IF NAME \in DOMAIN outputs THEN outputs[NAME]
          ELSE s
  ELSE s

\* C29: every flag value and arg of the resolved CommandSpec is the value
\* the claim gives, a flag value that is no string is unchanged, and the other
\* fields are those of the input.
C29_PlaceholderByKey ==
  (call.fn = "command" /\ call.n = 1) =>
    /\ \A f \in DOMAIN call.spec.flags :
         call.out.flags[f] =
           IF call.spec.flags[f].type = "str"
           THEN Str(ByKey(call.spec.flags[f].s, call.inputs, call.outputs))
           ELSE call.spec.flags[f]
    /\ \A i \in DOMAIN call.spec.args :
         call.out.args[i] = ByKey(call.spec.args[i], call.inputs, call.outputs)
    /\ call.out.program = call.spec.program

\* The flags of a step as a mapping.
AsMapping(flags) == { flags[i] : i \in DOMAIN flags }

\* C30: two steps with the same order, service, program and flag mapping have
\* the same composite name, and two steps that differ in order, service or
\* program have different composite names.
C30_CompositeNameOfFourFields ==
  (call.fn = "name" /\ call.n = 1) =>
    /\ (/\ call.a.order = call.b.order
        /\ call.a.microservice = call.b.microservice
        /\ call.a.program = call.b.program
        /\ AsMapping(call.a.flags) = AsMapping(call.b.flags))
         => call.name_a = call.name_b
    /\ (\/ call.a.order # call.b.order
        \/ call.a.microservice # call.b.microservice
        \/ call.a.program # call.b.program)
         => call.name_a # call.name_b

\* An envelope of step s is on a request queue or held by a worker.
EnvelopeOut(s) ==
  \/ \E svc \in Services : \E i \in DOMAIN requests[svc] :
        requests[svc][i].step_id = s
  \/ \E svc \in Services : worker[svc].pc = "running" /\ worker[svc].step_id = s

\* A status event of step s waits on job_status_events.
EventWaiting(s) == \E i \in DOMAIN statusQ : statusQ[i].step_id = s

\* C31: while an envelope of a step is on a request queue or held by a
\* worker, or a status event produced from it waits to be handled, the store
\* does not show the step as pending.
C31_StatusWrittenBeforePush ==
  job # NoJob =>
    \A s \in StepIds(job) :
      (EnvelopeOut(s) \/ EventWaiting(s)) => job.steps[s].status # "pending"

\* An envelope waits on a request queue while the store shows its step as
\* processing.
C31_Witness ==
  /\ job # NoJob
  /\ \E svc \in Services :
       /\ requests[svc] # << >>
       /\ job.steps[Head(requests[svc]).step_id].status = "processing"

\* C32: _get_ready_steps returns exactly the steps whose persisted status is
\* pending and whose inbound transitions all start at a complete step.
C32_ReadyStepsArePending ==
  job # NoJob =>
    LET ready == _get_ready_steps(job)
    IN { ready[i] : i \in DOMAIN ready } =
         { s \in StepIds(job) :
             /\ job.steps[s].status = "pending"
             /\ \A d \in DependencyStepIds(job, s) :
                  d \in StepIds(job) /\ job.steps[d].status = "complete" }

\* C33: handling a processing status event of an existing job changes nothing
\* but the record of the step it names: the job status, the transitions and
\* every other step stay as they were, no dispatch is scheduled and no
\* envelope is pushed.
C33_ProcessingEventTouchesOneStep ==
  [][(HandledNow /\ lastEvent'.status = "processing" /\ job # NoJob)
       => /\ job'.status = job.status
          /\ job'.step_transitions = job.step_transitions
          /\ StepIds(job') = StepIds(job)
          /\ \A s \in StepIds(job) :
               s # lastEvent'.step_id => job'.steps[s] = job.steps[s]
          /\ thread'["con"] = Idle
          /\ requests' = requests
          /\ pushed' = pushed]_vars

\* A processing event has been handled: the step it names is processing
\* beside a step that is not.
C33_Witness ==
  /\ job # NoJob
  /\ lastEvent.status = "processing"
  /\ lastEvent.step_id \in StepIds(job)
  /\ job.steps[lastEvent.step_id].status = "processing"
  /\ \E s \in StepIds(job) : job.steps[s].status # "processing"
  /\ thread["con"].pc = "idle"

\* The threads that are inside the event loop of the status consumer.
Looping == { t \in Starters : call.pc[t] \in {"listen", "handle"} }

\* C34: at most one thread runs the status-consumer loop, so at most one
\* status event is being handled at any time.
C34_OneConsumerLoop ==
  call.fn = "listener" =>
    /\ Cardinality(Looping) <= 1
    /\ Cardinality({ t \in Starters : call.pc[t] = "handle" }) <= 1

\* The inbound transitions of step 3 that map an output onto input name i.
MappingTo(j, i) ==
  { k \in DOMAIN j.step_transitions :
      /\ j.step_transitions[k].to_step_id = 3
      /\ i \in { j.step_transitions[k].output_to_input_mapping[o] :
                   o \in DOMAIN j.step_transitions[k].output_to_input_mapping } }

\* The value input i of step 3 is taken from: the output mapped by the last
\* transition that maps onto i, else the declared value.
Winner(j, i) ==
  IF MappingTo(j, i) # {}
  THEN LET k == CHOOSE m \in MappingTo(j, i) : \A n \in MappingTo(j, i) : n <= m
           transition == j.step_transitions[k]
           o == CHOOSE x \in DOMAIN transition.output_to_input_mapping :
                  transition.output_to_input_mapping[x] = i
       IN j.steps[transition.from_step_id].outputs[o]
  ELSE j.steps[3].inputs[i]

Dispatching(s) ==
  \E t \in Threads : thread[t].pc = "push" /\ Head(thread[t].todo) = s

\* C36: a step persisted as processing has an envelope on a request queue,
\* a worker executing it or a status event waiting, once the dispatch that
\* wrote the status has returned.
C36_NoOrphanedProcessingStep ==
  job # NoJob =>
    \A s \in StepIds(job) :
      (job.steps[s].status = "processing" /\ ~Dispatching(s))
        => EnvelopeOut(s) \/ EventWaiting(s)

\* C37: once retry_job has set the job to processing and everything
\* dispatched since has been reported and handled, the job is not left
\* processing with no step processing and no step ready: a retried job whose
\* steps all succeed goes on to complete.
C37_RetriedJobNotStranded ==
  (Quiescent /\ retries > 0 /\ job.status = "processing")
    => \E s \in StepIds(job) :
         job.steps[s].status = "processing" \/ IsReady(job, s)

\* C38: retry_job pushes an envelope for a step only while every source step
\* of its inbound transitions is persisted as complete.
C38_RetryPushOnlyWhenSourcesComplete ==
  [][\A s \in 1..3 :
       pushed'["retry"][s] > pushed["retry"][s]
         => _are_step_inputs_ready(job, s)]_vars

\* C39: handling a status event that names an existing job and a step_id no
\* step of the job has changes nothing: the job with its steps is as before,
\* no dispatch is scheduled and no envelope is pushed.
C39_UnknownStepEventHasNoEffect ==
  [][(HandledNow /\ job # NoJob /\ lastEvent'.step_id \notin StepIds(job))
       => /\ job' = job
          /\ thread'["con"] = Idle
          /\ requests' = requests
          /\ pushed' = pushed]_vars

\* C40: every persisted transition joins two steps of the job, and once
\* create_job has returned every sendable step without a persisted inbound
\* transition has been dispatched by it, a step named only by a dropped
\* transition included.
C40_TransitionsJoinStepsOfJob ==
  job # NoJob =>
    /\ \A i \in DOMAIN job.step_transitions :
         /\ job.step_transitions[i].from_step_id \in StepIds(job)
         /\ job.step_transitions[i].to_step_id \in StepIds(job)
    /\ thread["req"].pc = "idle" =>
         \A s \in StepIds(job) :
           (/\ \A i \in DOMAIN job.step_transitions :
                 job.step_transitions[i].to_step_id # s
            /\ job.steps[s].service # ""
            /\ ~ResolveRaises(job, s, "create"))
             => pushed["create"][s] = 1

\* The job of the payload whose only transition names an absent source step
\* is persisted without transitions and its second step has been dispatched
\* by create_job.
C40_Witness ==
  /\ job # NoJob
  /\ Len(job.steps) = 2
  /\ job.step_transitions = << >>
  /\ thread["req"].pc = "idle"
  /\ pushed["create"][2] = 1

================================================================================
